---- MODULE Spec2Model ----
(***************************************************************************)
(* Copy-on-write trie (sjtu::TrieNode, TrieNodeWithValue<T>, Trie) and the *)
(* versioned, thread-safe store built on it (sjtu::TrieStore), modelled    *)
(* from src/trie/src.hpp.                                                  *)
(*                                                                         *)
(* Nodes live in a heap (a sequence of node records; a shared_ptr is the   *)
(* index of a node, 0 is nullptr), so that cloning, in-place assignment to *)
(* children_ and sharing of nodes between tries are explicit.              *)
(***************************************************************************)
EXTENDS Integers, Sequences, FiniteSets, TLC

\* ------------------------------------------------------------------ bounds

\* Longest history the store model builds (snapshots_.size() never exceeds it).
MaxSnapshots == 4

\* Longest chain of tries the trie-level harness builds (the empty trie included).
MaxTries == 4

\* Width, in bits, of size_t in the model (the program's is 64).
SizeBits == 4

\* ------------------------------------------------------------------ inputs

Keys == { <<"a">>, <<"b">>, <<"a", "b">>, <<"a", "b", "a">> }

\* Template arguments T of Put<T> / Get<T>.
Types == { "int", "string" }

\* A value together with its static type T.
Payloads == { [type |-> "int", val |-> 1],
              [type |-> "int", val |-> 2],
              [type |-> "string", val |-> 1] }

\* ------------------------------------------------------------------ nodes

\* std::map<char, std::shared_ptr<TrieNode>>{}
EmptyChildren == [c \in {} |-> 0]

\* children_[c] = id
SetChild(children, c, id) ==
    [x \in (DOMAIN children) \cup {c} |-> IF x = c THEN id ELSE children[x]]

\* TrieNode(children): a node of dynamic type TrieNode, is_value_node_{false}.
TrieNode(children) ==
    [children_ |-> children, is_value_node_ |-> FALSE, type |-> "TrieNode", value_ |-> 0]

\* TrieNodeWithValue<T>(children, value): dynamic type TrieNodeWithValue<T>.
TrieNodeWithValue(children, T, value) ==
    [children_ |-> children, is_value_node_ |-> TRUE, type |-> T, value_ |-> value]

\* virtual Clone(): dispatches on the dynamic type of the node.
Clone(n) ==
    IF n.type = "TrieNode"
    THEN TrieNode(n.children_)
    ELSE TrieNodeWithValue(n.children_, n.type, n.value_)

\* ------------------------------------------------------------------ tries

\* Trie(): root_{nullptr}, change = false.
EmptyTrie == [root_ |-> 0, change |-> FALSE]

\* Trie(root) and Trie(root, chg).
Trie(root, chg) == [root_ |-> root, change |-> chg]

is_change(t) == t.change

\* const T* : nullptr, or a pointer to a stored value.
nullptr == [ok |-> FALSE, val |-> 0]
PtrTo(v) == [ok |-> TRUE, val |-> v]

\* The while loop of Trie::Get: follow the edges of key from position i.
RECURSIVE GetWalk(_, _, _, _)
GetWalk(h, current, key, i) ==
    IF i <= Len(key) /\ key[i] \in DOMAIN h[current].children_
    THEN GetWalk(h, h[current].children_[key[i]], key, i + 1)
    ELSE [current |-> current, i |-> i]

\* A Get that skips the dynamic_pointer_cast to TrieNodeWithValue<T>.
TrieGetUntyped(h, t, key, T) ==
    IF t.root_ = 0 THEN nullptr
    ELSE LET w == GetWalk(h, t.root_, key, 1)
             target == h[w.current]
         IN IF w.i <= Len(key) \/ ~target.is_value_node_ THEN nullptr
            ELSE PtrTo(target.value_)

\* Trie::Get<T>(key)
TrieGet(h, t, key, T) ==
    IF t.root_ = 0 THEN nullptr
    ELSE LET w == GetWalk(h, t.root_, key, 1)
             target == h[w.current]
         IN IF w.i <= Len(key) \/ ~target.is_value_node_ THEN nullptr
            ELSE IF target.type # T THEN nullptr
            ELSE PtrTo(target.value_)

\* A Put loop that descends into an existing child instead of cloning it.
RECURSIVE PutWalkInPlace(_, _, _, _, _)
PutWalkInPlace(h, current, key, i, exist) ==
    IF i > Len(key) - 1 THEN [heap |-> h, current |-> current, exist |-> exist]
    ELSE LET fresh == Len(h) + 1 IN
         IF exist /\ key[i] \in DOMAIN h[current].children_
         THEN PutWalkInPlace(h, h[current].children_[key[i]], key, i + 1, exist)
         ELSE LET h1 == Append(h, TrieNode(EmptyChildren))
                  h2 == [h1 EXCEPT ![current].children_ = SetChild(@, key[i], fresh)]
              IN PutWalkInPlace(h2, fresh, key, i + 1, FALSE)

\* The for loop of Trie::Put over key[0 .. size-2].
RECURSIVE PutWalk(_, _, _, _, _)
PutWalk(h, current, key, i, exist) ==
    IF i > Len(key) - 1 THEN [heap |-> h, current |-> current, exist |-> exist]
    ELSE LET fresh == Len(h) + 1 IN
         IF exist /\ key[i] \in DOMAIN h[current].children_
         THEN LET h1 == Append(h, Clone(h[h[current].children_[key[i]]]))
                  h2 == [h1 EXCEPT ![current].children_ = SetChild(@, key[i], fresh)]
              IN PutWalk(h2, fresh, key, i + 1, exist)
         ELSE LET h1 == Append(h, TrieNode(EmptyChildren))
                  h2 == [h1 EXCEPT ![current].children_ = SetChild(@, key[i], fresh)]
              IN PutWalk(h2, fresh, key, i + 1, FALSE)

\* A Put that starts from a new, childless root whatever the receiver holds.
PutNewRootFresh(h, t) == TrieNode(EmptyChildren)

\* The root Trie::Put starts from: a new TrieNode, or a clone of root_.
PutNewRoot(h, t) ==
    IF t.root_ = 0 THEN TrieNode(EmptyChildren) ELSE Clone(h[t.root_])

\* A Put that keeps the value already stored at the key.
PutValueNodeKeepOld(h, current, c, exist, p) ==
    IF ~exist \/ c \notin DOMAIN h[current].children_
    THEN TrieNodeWithValue(EmptyChildren, p.type, p.val)
    ELSE IF h[h[current].children_[c]].is_value_node_
         THEN h[h[current].children_[c]]
         ELSE TrieNodeWithValue(h[h[current].children_[c]].children_, p.type, p.val)

\* A Put that always stores a childless value node.
PutValueNodeChildless(h, current, c, exist, p) ==
    TrieNodeWithValue(EmptyChildren, p.type, p.val)

\* The node Trie::Put stores at key.back().
PutValueNode(h, current, c, exist, p) ==
    IF ~exist \/ c \notin DOMAIN h[current].children_
    THEN TrieNodeWithValue(EmptyChildren, p.type, p.val)
    ELSE TrieNodeWithValue(h[h[current].children_[c]].children_, p.type, p.val)

\* A Put that writes into the receiver's root instead of a clone of it.
TriePutInPlace(h, t, key, p) ==
    LET newroot == IF t.root_ = 0 THEN Len(h) + 1 ELSE t.root_
        h0 == IF t.root_ = 0 THEN Append(h, TrieNode(EmptyChildren)) ELSE h
        w  == PutWalk(h0, newroot, key, 1, TRUE)
        last == key[Len(key)]
        fresh == Len(w.heap) + 1
        h1 == Append(w.heap, PutValueNode(w.heap, w.current, last, w.exist, p))
        h2 == [h1 EXCEPT ![w.current].children_ = SetChild(@, last, fresh)]
    IN [heap |-> h2, trie |-> Trie(newroot, FALSE)]

\* Trie::Put<T>(key, value): the heap after the call and the trie returned.
TriePut(h, t, key, p) ==
    LET newroot == Len(h) + 1
        h0 == Append(h, PutNewRoot(h, t))
        w  == PutWalk(h0, newroot, key, 1, TRUE)
        last == key[Len(key)]
        fresh == Len(w.heap) + 1
        h1 == Append(w.heap, PutValueNode(w.heap, w.current, last, w.exist, p))
        h2 == [h1 EXCEPT ![w.current].children_ = SetChild(@, last, fresh)]
    IN [heap |-> h2, trie |-> Trie(newroot, FALSE)]

\* The for loop of Trie::Remove over key[0 .. size-2]; missing is set when
\* an edge is absent (return *this).
RECURSIVE RemoveWalk(_, _, _, _)
RemoveWalk(h, current, key, i) ==
    IF i > Len(key) - 1 THEN [heap |-> h, current |-> current, missing |-> FALSE]
    ELSE IF key[i] \notin DOMAIN h[current].children_
         THEN [heap |-> h, current |-> current, missing |-> TRUE]
         ELSE LET fresh == Len(h) + 1
                  h1 == Append(h, Clone(h[h[current].children_[key[i]]]))
                  h2 == [h1 EXCEPT ![current].children_ = SetChild(@, key[i], fresh)]
              IN RemoveWalk(h2, fresh, key, i + 1)

\* A Remove that prunes the subtree below the removed value.
RemoveReplacementPruned(h, current, c) ==
    TrieNode(EmptyChildren)

\* The node Trie::Remove stores at key.back(): a plain node with the same children.
RemoveReplacement(h, current, c) ==
    TrieNode(h[h[current].children_[c]].children_)

\* Trie::Remove(key): the heap after the call and the trie returned. On the
\* "return *this" paths the clones made so far are released and the result is
\* a copy of the receiver, its change member included.
TrieRemove(h, t, key) ==
    IF t.root_ = 0 THEN [heap |-> h, trie |-> t]
    ELSE LET newroot == Len(h) + 1
             h0 == Append(h, Clone(h[t.root_]))
             w  == RemoveWalk(h0, newroot, key, 1)
             last == key[Len(key)]
         IN IF w.missing \/ last \notin DOMAIN w.heap[w.current].children_
            THEN [heap |-> h, trie |-> t]
            ELSE LET fresh == Len(w.heap) + 1
                     h1 == Append(w.heap, RemoveReplacement(w.heap, w.current, last))
                     h2 == [h1 EXCEPT ![w.current].children_ = SetChild(@, last, fresh)]
                 IN [heap |-> h2, trie |-> Trie(newroot, TRUE)]

\* ---------------------------------------------------------------- size_t

\* size_t arithmetic is modulo 2^SizeBits.
SizeMod == 2 ^ SizeBits
ToSizeT(x) == x % SizeMod

\* The default argument of TrieStore::Get: size_t version = -1.
DefaultVersion == ToSizeT(-1)

\* ---------------------------------------------------------------- store

Threads == { "t1", "t2" }
NoThread == "none"

\* Inputs of the store's calls.
StoreKeys == { <<"a">>, <<"a", "b">> }
StorePayloads == { [type |-> "int", val |-> 1], [type |-> "int", val |-> 2] }
\* Version arguments: the first two versions, one past every history, the default.
VersionArgs == { 0, 1, MaxSnapshots, DefaultVersion }

\* std::optional<ValueGuard<T>>: nullopt, or a guard holding the snapshot
\* and the value it refers to.
nullopt == [has_value |-> FALSE, root_ |-> EmptyTrie, value_ |-> 0]
ValueGuard(root, value) == [has_value |-> TRUE, root_ |-> root, value_ |-> value]

\* A Get that serves every version past the history from the latest snapshot.
ResolveVersionClamped(snaps, version) ==
    IF version = ToSizeT(-1) \/ version >= Len(snaps)
    THEN ToSizeT(Len(snaps) - 1) ELSE version

\* version after "if (version == -1) version = snapshots_.size() - 1".
ResolveVersion(snaps, version) ==
    IF version = ToSizeT(-1) THEN ToSizeT(Len(snaps) - 1) ELSE version

\* "if (version >= snapshots_.size()) return std::nullopt".
OutOfRange(snaps, version) == version >= Len(snaps)

\* snapshots_[version] (the vector is indexed from 0).
At(snaps, version) == snaps[version + 1]

\* The result of TrieStore::Get<T>(key, version) on a given history.
StoreGet(h, snaps, key, version, T) ==
    LET v == ResolveVersion(snaps, version) IN
    IF OutOfRange(snaps, v) THEN nullopt
    ELSE LET target == At(snaps, v)
             value == TrieGet(h, target, key, T)
         IN IF value = nullptr THEN nullopt ELSE ValueGuard(target, value.val)

\* An append that overwrites the newest snapshot once the history is not empty.
PushBackOverwrite(snaps, t) ==
    IF Len(snaps) > 1 THEN [snaps EXCEPT ![Len(snaps)] = t] ELSE Append(snaps, t)

\* An append that inserts the new snapshot at the front of the history.
PushBackFront(snaps, t) == <<t>> \o snaps

\* snapshots_.push_back(newtrie)
PushBack(snaps, t) == Append(snaps, t)

\* The size of the history taken for its last index.
LastVersionOffByOne(snaps) == ToSizeT(Len(snaps))

\* snapshots_.size() - 1
LastVersion(snaps) == ToSizeT(Len(snaps) - 1)

\* ---------------------------------------------------------------- state

VARIABLES
    heap,            \* every TrieNode allocated so far
    snapshots_,      \* TrieStore::snapshots_
    write_lock_,     \* TrieStore::write_lock_: the thread holding it
    snapshots_lock_, \* TrieStore::snapshots_lock_: exclusive holder, shared holders
    th,              \* per thread: position in its call, arguments and locals
    log,             \* history: for each appended version, the call that appended it
    returned,        \* history: the versions Put calls have returned
    tries,           \* trie harness: the chain of tries built by Put / Remove
    call             \* trie harness: the last operation applied

storeVars == <<snapshots_, write_lock_, snapshots_lock_, th, log, returned>>
harnessVars == <<tries, call>>
vars == <<heap, snapshots_, write_lock_, snapshots_lock_, th, log, returned, tries, call>>

NoPayload == [type |-> "none", val |-> 0]
NoCall == [op |-> "none", key |-> <<>>, p |-> NoPayload]

\* A thread outside any call.
Idle == [pc |-> "idle", key |-> <<>>, p |-> NoPayload, T |-> "none",
         arg |-> 0, version |-> 0, base |-> 0,
         latest |-> EmptyTrie, newtrie |-> EmptyTrie, target |-> EmptyTrie,
         size_ |-> 0, ret |-> nullopt]

\* A TrieStore after construction (snapshots_{1}); no trie built yet.
Init ==
    /\ heap = <<>>
    /\ snapshots_ = <<EmptyTrie>>
    /\ write_lock_ = NoThread
    /\ snapshots_lock_ = [exclusive |-> NoThread, shared |-> {}]
    /\ th = [t \in Threads |-> Idle]
    /\ log = <<[op |-> "none", key |-> <<>>, p |-> NoPayload, base |-> 0]>>
    /\ returned = {}
    /\ tries = <<EmptyTrie>>
    /\ call = NoCall

\* ---------------------------------------------------------------- locks

\* A mutex that never makes a thread wait.
CanLockAlways(holder) == TRUE

\* std::mutex::lock() returns when no thread holds the mutex.
CanLock(holder) == holder = NoThread

\* A shared lock that is granted while another thread holds the lock exclusively.
CanLockSharedAlways(l) == TRUE

\* A shared lock that is also refused while any thread holds write_lock_.
CanLockSharedNoWriter(l) == l.exclusive = NoThread /\ write_lock_ = NoThread

\* An unlock_shared() that leaves the caller among the shared holders.
UnlockSharedMissing(l, t) == l

\* A lock_shared() that does not register the caller as a shared holder.
LockSharedNothing(l, t) == l

\* A lock() that does not register the caller as the exclusive holder.
LockExclusiveNothing(l, t) == l

\* std::shared_mutex::lock_shared() returns when no thread holds it exclusively.
CanLockShared(l) == l.exclusive = NoThread

\* An exclusive lock that is granted while readers hold the lock shared.
CanLockExclusiveIgnoringReaders(l) == l.exclusive = NoThread

\* std::shared_mutex::lock() returns when no thread holds it in either mode.
CanLockExclusive(l) == l.exclusive = NoThread /\ l.shared = {}

LockShared(l, t) == [l EXCEPT !.shared = @ \cup {t}]
UnlockShared(l, t) == [l EXCEPT !.shared = @ \ {t}]
LockExclusive(l, t) == [l EXCEPT !.exclusive = t]
UnlockExclusive(l, t) == [l EXCEPT !.exclusive = NoThread]

WritePcs == { "put_288", "put_289", "put_290", "put_291", "put_292", "put_293", "put_294",
              "put_296", "put_297", "put_298",
              "rm_306", "rm_307", "rm_308", "rm_309", "rm_311", "rm_314", "rm_315",
              "rm_317", "rm_320", "rm_321", "rm_322" }

\* Calls are started only while the history they can produce fits the bound.
RoomForWrite ==
    Len(snapshots_) + Cardinality({ u \in Threads : th[u].pc \in WritePcs }) < MaxSnapshots

Goto(t, pc) == th' = [th EXCEPT ![t].pc = pc]

\* ---------------------------------------------------------------- TrieStore::Get

\* A thread calls Get<T>(key, version). (The arguments of a call enter the
\* state at the line that first reads them.)
GetCall(t) ==
    /\ th[t].pc = "idle"
    /\ th' = [th EXCEPT ![t] = [Idle EXCEPT !.pc = "get_269"]]
    /\ UNCHANGED <<heap, snapshots_, write_lock_, snapshots_lock_, log, returned, harnessVars>>

\* line 269: std::shared_lock lock(snapshots_lock_)
Get269(t) ==
    /\ th[t].pc = "get_269"
    /\ CanLockShared(snapshots_lock_)
    /\ snapshots_lock_' = LockShared(snapshots_lock_, t)
    /\ Goto(t, "get_270")
    /\ UNCHANGED <<heap, snapshots_, write_lock_, log, returned, harnessVars>>

\* lines 270-274: resolve the version, return nullopt when it is out of
\* range, else copy snapshots_[version] into target.
Get270(t, version) ==
    /\ th[t].pc = "get_270"
    /\ LET v == ResolveVersion(snapshots_, version) IN
       IF OutOfRange(snapshots_, v)
       THEN th' = [th EXCEPT ![t].arg = version, ![t].version = v,
                             ![t].ret = nullopt, ![t].pc = "get_ret"]
       ELSE th' = [th EXCEPT ![t].arg = version, ![t].version = v,
                             ![t].target = At(snapshots_, v), ![t].pc = "get_275"]
    /\ UNCHANGED <<heap, snapshots_, write_lock_, snapshots_lock_, log, returned, harnessVars>>

\* lines 275-278: look the key up in target and build the result.
Get275(t, key, T) ==
    /\ th[t].pc = "get_275"
    /\ LET value == TrieGet(heap, th[t].target, key, T) IN
       th' = [th EXCEPT ![t].key = key, ![t].T = T,
                        ![t].ret = IF value = nullptr THEN nullopt
                                   ELSE ValueGuard(th[t].target, value.val),
                        ![t].pc = "get_ret"]
    /\ UNCHANGED <<heap, snapshots_, write_lock_, snapshots_lock_, log, returned, harnessVars>>

\* return: the shared_lock is released when Get's scope ends.
GetReturn(t) ==
    /\ th[t].pc = "get_ret"
    /\ snapshots_lock_' = UnlockShared(snapshots_lock_, t)
    /\ th' = [th EXCEPT ![t] = Idle]
    /\ UNCHANGED <<heap, snapshots_, write_lock_, log, returned, harnessVars>>

\* ---------------------------------------------------------------- TrieStore::get_version

GetVersionCall(t) ==
    /\ th[t].pc = "idle"
    /\ th' = [th EXCEPT ![t] = [Idle EXCEPT !.pc = "ver_328"]]
    /\ UNCHANGED <<heap, snapshots_, write_lock_, snapshots_lock_, log, returned, harnessVars>>

\* line 328: std::shared_lock lock(snapshots_lock_)
Ver328(t) ==
    /\ th[t].pc = "ver_328"
    /\ CanLockShared(snapshots_lock_)
    /\ snapshots_lock_' = LockShared(snapshots_lock_, t)
    /\ Goto(t, "ver_329")
    /\ UNCHANGED <<heap, snapshots_, write_lock_, log, returned, harnessVars>>

\* line 329: the value returned, snapshots_.size() - 1.
Ver329(t) ==
    /\ th[t].pc = "ver_329"
    /\ th' = [th EXCEPT ![t].size_ = LastVersion(snapshots_), ![t].pc = "ver_ret"]
    /\ UNCHANGED <<heap, snapshots_, write_lock_, snapshots_lock_, log, returned, harnessVars>>

VerReturn(t) ==
    /\ th[t].pc = "ver_ret"
    /\ snapshots_lock_' = UnlockShared(snapshots_lock_, t)
    /\ th' = [th EXCEPT ![t] = Idle]
    /\ UNCHANGED <<heap, snapshots_, write_lock_, log, returned, harnessVars>>

\* ---------------------------------------------------------------- TrieStore::Put

\* A thread calls Put<T>(key, value).
PutCall(t) ==
    /\ th[t].pc = "idle"
    /\ RoomForWrite
    /\ th' = [th EXCEPT ![t] = [Idle EXCEPT !.pc = "put_288"]]
    /\ UNCHANGED <<heap, snapshots_, write_lock_, snapshots_lock_, log, returned, harnessVars>>

\* line 288: write_lock_.lock()
Put288(t) ==
    /\ th[t].pc = "put_288"
    /\ CanLock(write_lock_)
    /\ write_lock_' = t
    /\ Goto(t, "put_289")
    /\ UNCHANGED <<heap, snapshots_, snapshots_lock_, log, returned, harnessVars>>

\* line 289: snapshots_lock_.lock_shared()
Put289(t) ==
    /\ th[t].pc = "put_289"
    /\ CanLockShared(snapshots_lock_)
    /\ snapshots_lock_' = LockShared(snapshots_lock_, t)
    /\ Goto(t, "put_290")
    /\ UNCHANGED <<heap, snapshots_, write_lock_, log, returned, harnessVars>>

\* line 290: latest = snapshots_.back()
Put290(t) ==
    /\ th[t].pc = "put_290"
    /\ th' = [th EXCEPT ![t].latest = At(snapshots_, Len(snapshots_) - 1),
                        ![t].base = Len(snapshots_) - 1, ![t].pc = "put_291"]
    /\ UNCHANGED <<heap, snapshots_, write_lock_, snapshots_lock_, log, returned, harnessVars>>

\* line 291: newtrie = latest.Put<T>(key, value)
Put291(t, key, p) ==
    /\ th[t].pc = "put_291"
    /\ LET r == TriePut(heap, th[t].latest, key, p)
       IN /\ heap' = r.heap
          /\ th' = [th EXCEPT ![t].key = key, ![t].p = p, ![t].newtrie = r.trie,
                              ![t].pc = "put_292"]
    /\ UNCHANGED <<snapshots_, write_lock_, snapshots_lock_, log, returned, harnessVars>>

\* line 292: snapshots_lock_.unlock_shared()
Put292(t) ==
    /\ th[t].pc = "put_292"
    /\ snapshots_lock_' = UnlockShared(snapshots_lock_, t)
    /\ Goto(t, "put_293")
    /\ UNCHANGED <<heap, snapshots_, write_lock_, log, returned, harnessVars>>

\* line 293: snapshots_lock_.lock()
Put293(t) ==
    /\ th[t].pc = "put_293"
    /\ CanLockExclusive(snapshots_lock_)
    /\ snapshots_lock_' = LockExclusive(snapshots_lock_, t)
    /\ Goto(t, "put_294")
    /\ UNCHANGED <<heap, snapshots_, write_lock_, log, returned, harnessVars>>

\* lines 294-295: snapshots_.push_back(newtrie); size_ = snapshots_.size() - 1
Put294(t) ==
    /\ th[t].pc = "put_294"
    /\ snapshots_' = PushBack(snapshots_, th[t].newtrie)
    /\ th' = [th EXCEPT ![t].size_ = LastVersion(snapshots_'), ![t].pc = "put_296"]
    /\ log' = Append(log, [op |-> "Put", key |-> th[t].key, p |-> th[t].p,
                            base |-> th[t].base])
    /\ UNCHANGED <<heap, write_lock_, snapshots_lock_, returned, harnessVars>>

\* line 296: snapshots_lock_.unlock()
Put296(t) ==
    /\ th[t].pc = "put_296"
    /\ snapshots_lock_' = UnlockExclusive(snapshots_lock_, t)
    /\ Goto(t, "put_297")
    /\ UNCHANGED <<heap, snapshots_, write_lock_, log, returned, harnessVars>>

\* line 297: write_lock_.unlock()
Put297(t) ==
    /\ th[t].pc = "put_297"
    /\ write_lock_' = NoThread
    /\ Goto(t, "put_298")
    /\ UNCHANGED <<heap, snapshots_, snapshots_lock_, log, returned, harnessVars>>

\* line 298: return size_
PutReturn(t) ==
    /\ th[t].pc = "put_298"
    /\ returned' = returned \cup {th[t].size_}
    /\ th' = [th EXCEPT ![t] = Idle]
    /\ UNCHANGED <<heap, snapshots_, write_lock_, snapshots_lock_, log, harnessVars>>

\* ---------------------------------------------------------------- TrieStore::Remove

\* A thread calls Remove(key).
RemoveCall(t) ==
    /\ th[t].pc = "idle"
    /\ RoomForWrite
    /\ th' = [th EXCEPT ![t] = [Idle EXCEPT !.pc = "rm_306"]]
    /\ UNCHANGED <<heap, snapshots_, write_lock_, snapshots_lock_, log, returned, harnessVars>>

\* line 306: write_lock_.lock()
Rm306(t) ==
    /\ th[t].pc = "rm_306"
    /\ CanLock(write_lock_)
    /\ write_lock_' = t
    /\ Goto(t, "rm_307")
    /\ UNCHANGED <<heap, snapshots_, snapshots_lock_, log, returned, harnessVars>>

\* line 307: snapshots_lock_.lock_shared()
Rm307(t) ==
    /\ th[t].pc = "rm_307"
    /\ CanLockShared(snapshots_lock_)
    /\ snapshots_lock_' = LockShared(snapshots_lock_, t)
    /\ Goto(t, "rm_308")
    /\ UNCHANGED <<heap, snapshots_, write_lock_, log, returned, harnessVars>>

\* line 308: latest = snapshots_.back()
Rm308(t) ==
    /\ th[t].pc = "rm_308"
    /\ th' = [th EXCEPT ![t].latest = At(snapshots_, Len(snapshots_) - 1),
                        ![t].base = Len(snapshots_) - 1, ![t].pc = "rm_309"]
    /\ UNCHANGED <<heap, snapshots_, write_lock_, snapshots_lock_, log, returned, harnessVars>>

\* line 309: newtrie = latest.Remove(key)
Rm309(t, key) ==
    /\ th[t].pc = "rm_309"
    /\ LET r == TrieRemove(heap, th[t].latest, key)
       IN /\ heap' = r.heap
          /\ th' = [th EXCEPT ![t].key = key, ![t].newtrie = r.trie, ![t].pc = "rm_311"]
    /\ UNCHANGED <<snapshots_, write_lock_, snapshots_lock_, log, returned, harnessVars>>

\* lines 311-312: snapshots_lock_.unlock_shared(); if (newtrie.is_change())
Rm311(t) ==
    /\ th[t].pc = "rm_311"
    /\ snapshots_lock_' = UnlockShared(snapshots_lock_, t)
    /\ Goto(t, IF is_change(th[t].newtrie) THEN "rm_314" ELSE "rm_320")
    /\ UNCHANGED <<heap, snapshots_, write_lock_, log, returned, harnessVars>>

\* line 314: snapshots_lock_.lock()
Rm314(t) ==
    /\ th[t].pc = "rm_314"
    /\ CanLockExclusive(snapshots_lock_)
    /\ snapshots_lock_' = LockExclusive(snapshots_lock_, t)
    /\ Goto(t, "rm_315")
    /\ UNCHANGED <<heap, snapshots_, write_lock_, log, returned, harnessVars>>

\* lines 315-316: snapshots_.push_back(newtrie); size_ = snapshots_.size() - 1
Rm315(t) ==
    /\ th[t].pc = "rm_315"
    /\ snapshots_' = PushBack(snapshots_, th[t].newtrie)
    /\ th' = [th EXCEPT ![t].size_ = LastVersion(snapshots_'), ![t].pc = "rm_317"]
    /\ log' = Append(log, [op |-> "Remove", key |-> th[t].key, p |-> NoPayload,
                            base |-> th[t].base])
    /\ UNCHANGED <<heap, write_lock_, snapshots_lock_, returned, harnessVars>>

\* line 317: snapshots_lock_.unlock()
Rm317(t) ==
    /\ th[t].pc = "rm_317"
    /\ snapshots_lock_' = UnlockExclusive(snapshots_lock_, t)
    /\ Goto(t, "rm_321")
    /\ UNCHANGED <<heap, snapshots_, write_lock_, log, returned, harnessVars>>

\* line 320: size_ = snapshots_.size() - 1, read without snapshots_lock_
Rm320(t) ==
    /\ th[t].pc = "rm_320"
    /\ th' = [th EXCEPT ![t].size_ = LastVersion(snapshots_), ![t].pc = "rm_321"]
    /\ UNCHANGED <<heap, snapshots_, write_lock_, snapshots_lock_, log, returned, harnessVars>>

\* line 321: write_lock_.unlock()
Rm321(t) ==
    /\ th[t].pc = "rm_321"
    /\ write_lock_' = NoThread
    /\ Goto(t, "rm_322")
    /\ UNCHANGED <<heap, snapshots_, snapshots_lock_, log, returned, harnessVars>>

\* line 322: return size_
RemoveReturn(t) ==
    /\ th[t].pc = "rm_322"
    /\ th' = [th EXCEPT ![t] = Idle]
    /\ UNCHANGED <<heap, snapshots_, write_lock_, snapshots_lock_, log, returned, harnessVars>>

\* ---------------------------------------------------------------- specification

Next ==
    \E t \in Threads :
        \/ GetCall(t) \/ Get269(t)
        \/ \E version \in VersionArgs : Get270(t, version)
        \/ \E key \in StoreKeys, T \in Types : Get275(t, key, T)
        \/ GetReturn(t)
        \/ GetVersionCall(t) \/ Ver328(t) \/ Ver329(t) \/ VerReturn(t)
        \/ PutCall(t) \/ Put288(t) \/ Put289(t)
        \/ Put290(t)
        \/ \E key \in StoreKeys, p \in StorePayloads : Put291(t, key, p)
        \/ Put292(t) \/ Put293(t) \/ Put294(t) \/ Put296(t) \/ Put297(t)
        \/ PutReturn(t)
        \/ RemoveCall(t) \/ Rm306(t) \/ Rm307(t)
        \/ Rm308(t)
        \/ \E key \in StoreKeys : Rm309(t, key)
        \/ Rm311(t) \/ Rm314(t) \/ Rm315(t) \/ Rm317(t) \/ Rm320(t) \/ Rm321(t)
        \/ RemoveReturn(t)

Spec == Init /\ [][Next]_vars

\* The steps thread t takes inside a call it has entered: every line of
\* Get, get_version, Put and Remove after the call itself.
Step(t) ==
    \/ Get269(t)
    \/ \E version \in VersionArgs : Get270(t, version)
    \/ \E key \in StoreKeys, T \in Types : Get275(t, key, T)
    \/ GetReturn(t)
    \/ Ver328(t) \/ Ver329(t) \/ VerReturn(t)
    \/ Put288(t) \/ Put289(t) \/ Put290(t)
    \/ \E key \in StoreKeys, p \in StorePayloads : Put291(t, key, p)
    \/ Put292(t) \/ Put293(t) \/ Put294(t) \/ Put296(t) \/ Put297(t)
    \/ PutReturn(t)
    \/ Rm306(t) \/ Rm307(t) \/ Rm308(t)
    \/ \E key \in StoreKeys : Rm309(t, key)
    \/ Rm311(t) \/ Rm314(t) \/ Rm315(t) \/ Rm317(t) \/ Rm320(t) \/ Rm321(t)
    \/ RemoveReturn(t)

\* Fair scheduling of threads and fair lock grants: a thread whose next line
\* can run again and again, a lock acquisition included, eventually runs it.
FairSpec == Spec /\ \A t \in Threads : SF_vars(Step(t))

\* ------------------------------------------------- trie-level harness

\* t' = t.Put(key, value) on the newest trie of the chain.
TrieDoPut(key, p) ==
    /\ Len(tries) < MaxTries
    /\ LET r == TriePut(heap, tries[Len(tries)], key, p)
       IN /\ heap' = r.heap
          /\ tries' = Append(tries, r.trie)
    /\ call' = [op |-> "Put", key |-> key, p |-> p]
    /\ UNCHANGED storeVars

\* t' = t.Remove(key) on the newest trie of the chain.
TrieDoRemove(key) ==
    /\ Len(tries) < MaxTries
    /\ LET r == TrieRemove(heap, tries[Len(tries)], key)
       IN /\ heap' = r.heap
          /\ tries' = Append(tries, r.trie)
    /\ call' = [op |-> "Remove", key |-> key, p |-> NoPayload]
    /\ UNCHANGED storeVars

TrieNext ==
    \/ \E key \in Keys, p \in Payloads : TrieDoPut(key, p)
    \/ \E key \in Keys : TrieDoRemove(key)

TrieSpec == Init /\ [][TrieNext]_vars

\* ------------------------------------------------- trie-level properties

Chars == { "a", "b" }

\* Keys looked up by the properties: every key over Chars, the empty key
\* included, up to the longest key written.
ProbeKeys == UNION { [1..n -> Chars] : n \in {0} \cup { Len(k) : k \in Keys } }

IsProperPrefix(k1, k2) ==
    /\ Len(k1) < Len(k2)
    /\ \A i \in 1..Len(k1) : k1[i] = k2[i]

\* The receiver and the result of the last operation of the chain.
Receiver == tries[Len(tries) - 1]
Result == tries[Len(tries)]

HasValue(h, t, k) == \E T \in Types : TrieGet(h, t, k, T) # nullptr

\* C5: t.Put(k, v) and t.Remove(k) leave the receiver t unchanged: every
\* Get<T>(k') on t returns after the call what it returned before it.
C5_ReceiverUnchanged ==
    [][\A k \in ProbeKeys, T \in Types :
          TrieGet(heap', tries[Len(tries)], k, T) = TrieGet(heap, tries[Len(tries)], k, T)]_vars

\* A Put or Remove has changed, in its result, the value of a key the
\* receiver holds.
C5_Witness ==
    /\ call.op \in {"Put", "Remove"}
    /\ HasValue(heap, Receiver, call.key)
    /\ \E T \in Types :
          TrieGet(heap, Result, call.key, T) # TrieGet(heap, Receiver, call.key, T)

\* C6: t.Put(k, v).Get<T>(k) == v, whatever t holds at k, below k or above k;
\* after two Puts on k the second value is the one returned.
C6_RoundTrip ==
    call.op = "Put" =>
        TrieGet(heap, Result, call.key, call.p.type) = PtrTo(call.p.val)

\* A Put on a key that held a value of another type and that is a proper
\* prefix of another stored key.
C6_Witness ==
    /\ call.op = "Put"
    /\ \E T \in Types \ {call.p.type} : TrieGet(heap, Receiver, call.key, T) # nullptr
    /\ \E k \in ProbeKeys : IsProperPrefix(call.key, k) /\ HasValue(heap, Receiver, k)

\* A second Put on a key holding a value of the same type, below a stored
\* proper prefix of the key.
C6_WitnessOverwrite ==
    /\ call.op = "Put"
    /\ TrieGet(heap, Receiver, call.key, call.p.type) \notin {nullptr, PtrTo(call.p.val)}
    /\ \E k \in ProbeKeys : IsProperPrefix(k, call.key) /\ HasValue(heap, Receiver, k)

\* C7: t.Put(k, v).Get<T>(k') == t.Get<T>(k') for every key k' other than k.
C7_PutOnlyOwnKey ==
    call.op = "Put" =>
        \A k \in ProbeKeys \ {call.key}, T \in Types :
            TrieGet(heap, Result, k, T) = TrieGet(heap, Receiver, k, T)

\* A Put on a key whose path passes a stored value and that has a stored
\* key below it.
C7_Witness ==
    /\ call.op = "Put"
    /\ \E k \in ProbeKeys : IsProperPrefix(k, call.key) /\ HasValue(heap, Result, k)
    /\ \E k \in ProbeKeys : IsProperPrefix(call.key, k) /\ HasValue(heap, Result, k)

\* C8: t.Remove(k).Get<T>(k) is not-found for every T, and
\* t.Remove(k).Get<T>(k') == t.Get<T>(k') for every key k' other than k.
C8_RemoveSemantics ==
    call.op = "Remove" =>
        /\ \A T \in Types : TrieGet(heap, Result, call.key, T) = nullptr
        /\ \A k \in ProbeKeys \ {call.key}, T \in Types :
              TrieGet(heap, Result, k, T) = TrieGet(heap, Receiver, k, T)

\* A Remove of a stored key that has another stored key below it.
C8_Witness ==
    /\ call.op = "Remove"
    /\ HasValue(heap, Receiver, call.key)
    /\ \E k \in ProbeKeys : IsProperPrefix(call.key, k) /\ HasValue(heap, Result, k)

\* The node a key leads to in a trie (the node Get inspects), if any.
Lands(h, t, k) == t.root_ # 0 /\ GetWalk(h, t.root_, k, 1).i > Len(k)
NodeAt(h, t, k) == h[GetWalk(h, t.root_, k, 1).current]

\* C9: when the value stored at k has type T1, Get<T1>(k) returns it and
\* Get<T2>(k) is not-found for every other type T2: nullptr from Trie::Get,
\* nullopt from TrieStore::Get on a history made of the tries of the chain.
C9_TypeMismatch ==
    \A i \in 1..Len(tries), k \in ProbeKeys :
        (Lands(heap, tries[i], k) /\ NodeAt(heap, tries[i], k).type \in Types) =>
            \A T \in Types :
                /\ TrieGet(heap, tries[i], k, T) =
                       IF T = NodeAt(heap, tries[i], k).type
                       THEN PtrTo(NodeAt(heap, tries[i], k).value_)
                       ELSE nullptr
                /\ StoreGet(heap, tries, k, i - 1, T).has_value
                       = (T = NodeAt(heap, tries[i], k).type)

\* A trie holding values of two different types at two keys.
C9_Witness ==
    \E k1, k2 \in ProbeKeys :
        /\ TrieGet(heap, Result, k1, "int") # nullptr
        /\ TrieGet(heap, Result, k2, "string") # nullptr
        /\ call.op = "Put" /\ call.key = k2
        /\ TrieGet(heap, Receiver, k2, "int") # nullptr


\* ------------------------------------------------- store properties

\* The tree below a node, unfolded: what a trie holds, whatever the identity
\* of its nodes.
RECURSIVE TreeOf(_, _)
TreeOf(h, id) ==
    IF id = 0 THEN [empty |-> TRUE]
    ELSE [empty |-> FALSE, is_value_node_ |-> h[id].is_value_node_,
          type |-> h[id].type, value_ |-> h[id].value_,
          children_ |-> [c \in DOMAIN h[id].children_ |-> TreeOf(h, h[id].children_[c])]]

SameTrie(h1, t1, h2, t2) == TreeOf(h1, t1.root_) = TreeOf(h2, t2.root_)

Latest == At(snapshots_, Len(snapshots_) - 1)

\* Keys looked up in the store: every key over Chars, the empty key
\* included, up to the longest key the store's calls write.
StoreProbeKeys == UNION { [1..n -> Chars] : n \in {0} \cup { Len(k) : k \in StoreKeys } }

\* C1: Remove(k) of a key with no value in the latest snapshot appends
\* nothing and returns the current latest version. Stated where the call
\* still holds write_lock_, after both branches of line 312.
C1_RemoveAbsentIsNoOp ==
    \A t \in Threads :
        (th[t].pc = "rm_321" /\ ~HasValue(heap, th[t].latest, th[t].key)) =>
            /\ Len(snapshots_) - 1 = th[t].base
            /\ th[t].size_ = th[t].base

\* C2: each Put appends exactly one snapshot, which is its immediate
\* predecessor with that Put applied; the history holds one version per Put
\* that has appended.
C2_SerializedWriters ==
    /\ Len(log) = Len(snapshots_)
    /\ \A i \in 2..Len(snapshots_) :
          log[i].op = "Put" =>
              /\ log[i].base = i - 2
              /\ LET r == TriePut(heap, snapshots_[i - 1], log[i].key, log[i].p)
                 IN SameTrie(heap, snapshots_[i], r.heap, r.trie)
    /\ Cardinality({ i \in 2..Len(log) : log[i].op = "Put" }) =
          Cardinality(returned) +
          Cardinality({ t \in Threads : th[t].pc \in {"put_296", "put_297", "put_298"} })

\* Two Put calls in flight at once, both appended, on different keys.
C2_Witness ==
    \E t, u \in Threads :
        /\ th[t].pc = "put_298" /\ th[u].pc = "put_296"
        /\ th[u].size_ = th[t].size_ + 1
        /\ th[u].key # th[t].key

\* C3: once version v exists, Get<T>(k, v) returns the same result for every
\* k and T after every later step; versions are never removed or renumbered.
C3_VersionIsolation ==
    [][\/ (heap' = heap /\ snapshots_' = snapshots_)
       \/ /\ Len(snapshots_') >= Len(snapshots_)
          /\ \A v \in 0..(Len(snapshots_) - 1), k \in StoreProbeKeys, T \in Types :
                StoreGet(heap', snapshots_', k, v, T) = StoreGet(heap, snapshots_, k, v, T)]_vars

\* A reader holds a value of version 1 that the latest version has replaced.
C3_Witness ==
    \E t \in Threads :
        /\ th[t].pc = "get_ret" /\ th[t].arg = 1 /\ th[t].ret.has_value
        /\ StoreGet(heap, snapshots_, th[t].key, DefaultVersion, th[t].T).value_ # th[t].ret.value_

\* C4: Put(k, x) returns r with Get<T>(k, r) == x, r one more than the
\* version the write was computed from, and distinct Puts return distinct r.
C4_PutReturnsOwnVersion ==
    \A t \in Threads :
        th[t].pc = "put_298" =>
            /\ StoreGet(heap, snapshots_, th[t].key, th[t].size_, th[t].p.type)
                  = ValueGuard(At(snapshots_, th[t].base + 1), th[t].p.val)
            /\ th[t].size_ = th[t].base + 1
            /\ th[t].size_ \notin returned
            /\ \A u \in Threads \ {t} : th[u].pc = "put_298" => th[u].size_ # th[t].size_

\* Two Puts on the same key about to return, after a third has returned.
C4_Witness ==
    \E t, u \in Threads :
        /\ t # u /\ th[t].pc = "put_298" /\ th[u].pc = "put_298"
        /\ th[t].key = th[u].key /\ th[t].p # th[u].p
        /\ returned # {}

GetPcs == { "get_269", "get_270", "get_275", "get_ret" }

\* C10 as claimed: every version argument at or beyond the length of the
\* history yields not-found.
C10_OutOfRangeAnyVersion ==
    \A t \in Threads :
        (th[t].pc = "get_ret" /\ th[t].arg >= Len(snapshots_)) => th[t].ret = nullopt

\* C10, amended: a version argument at or beyond the length of the history,
\* other than size_t(-1), yields not-found; no step of Get changes the history.
C10_OutOfRange ==
    [][\A t \in Threads :
          (th[t].pc \in GetPcs /\ th'[t] # th[t]) =>
              /\ snapshots_' = snapshots_ /\ heap' = heap
              /\ (th'[t].pc = "get_ret" /\ th'[t].arg >= Len(snapshots_)
                     /\ th'[t].arg # DefaultVersion) => th'[t].ret = nullopt]_vars

\* A Get returns not-found for the version equal to the length of a history
\* whose latest snapshot holds a value.
C10_Witness ==
    \E t \in Threads :
        /\ th[t].pc = "get_ret" /\ th[t].arg = Len(snapshots_)
        /\ th[t].ret = nullopt
        /\ \E k \in StoreKeys : HasValue(heap, Latest, k)

\* ------------------------------------------------- locking properties

\* Positions at which a thread holds snapshots_lock_ exclusively (its append).
AppendPcs == { "put_294", "put_296", "rm_315", "rm_317" }

\* Positions at which a thread holds snapshots_lock_ in shared mode.
SharedPcs == { "get_270", "get_275", "get_ret", "ver_329", "ver_ret",
               "put_290", "put_291", "put_292", "rm_308", "rm_309", "rm_311" }

\* The trie the logged call of version i - 1 builds from its predecessor.
Committed(i) ==
    IF log[i].op = "Put"
    THEN TriePut(heap, snapshots_[i - 1], log[i].key, log[i].p)
    ELSE TrieRemove(heap, snapshots_[i - 1], log[i].key)

\* C11: no thread reads the history while a writer is inside its append;
\* every version of the history holds the complete result of the write that
\* appended it; and the version a reader has selected, or get_version is
\* about to return, is such a version.
C11_CommitVisibility ==
    /\ \A w \in Threads :
          th[w].pc \in AppendPcs =>
              \A u \in Threads \ {w} : th[u].pc \notin (SharedPcs \cup AppendPcs)
    /\ \A i \in 2..Len(snapshots_) :
          SameTrie(heap, snapshots_[i], Committed(i).heap, Committed(i).trie)
    /\ \A t \in Threads :
          /\ th[t].pc = "get_275" =>
                th[t].version < Len(snapshots_) /\ th[t].target = At(snapshots_, th[t].version)
          /\ (th[t].pc = "get_ret" /\ th[t].ret.has_value) =>
                th[t].version < Len(snapshots_) /\ th[t].ret.root_ = At(snapshots_, th[t].version)
          /\ th[t].pc = "ver_ret" => th[t].size_ < Len(snapshots_)

\* A Get waits at line 269 while a Put has appended but not yet unlocked.
C11_Witness ==
    \E w, r \in Threads :
        /\ th[w].pc = "put_296" /\ th[r].pc = "get_269"
        /\ HasValue(heap, Latest, th[w].key)

\* C12: a Get that has to wait for its shared lock at line 269 waits for a
\* writer inside the exclusive append section and for nothing else: neither
\* another reader nor a writer that is still building its trie holds it up.
C12_ReadersOnlyWaitForAppend ==
    \A t \in Threads :
        th[t].pc = "get_269" =>
            \/ CanLockShared(snapshots_lock_)
            \/ \E w \in Threads \ {t} : th[w].pc \in AppendPcs

\* A Get is inside its read while a Put is building its new trie.
C12_Witness ==
    \E r, w \in Threads :
        /\ th[r].pc = "get_275" /\ th[w].pc = "put_291"
        /\ {r, w} \subseteq snapshots_lock_.shared

\* Two Gets are inside their read of the history at the same time.
C12_WitnessTwoReaders ==
    \E r, u \in Threads :
        r # u /\ th[r].pc = "get_275" /\ th[u].pc = "get_275"

\* Some thread that is inside a call can take its next step.
NoDeadlock ==
    (\E t \in Threads : th[t].pc # "idle") =>
        \E t \in Threads : th[t].pc # "idle" /\ ENABLED Step(t)

ReturnedOriginal(t) == th[t].newtrie.root_ = th[t].latest.root_

\* C14: TrieStore::Remove appends exactly when Trie::Remove built a new root.
\* When Trie::Remove returned the original trie, is_change() is false at line
\* 312, nothing is appended and the version read at line 308 is returned.
C14_AppendIffNewRoot ==
    \A t \in Threads :
        /\ th[t].pc = "rm_311" =>
              (is_change(th[t].newtrie) <=> ~ReturnedOriginal(t))
        /\ th[t].pc = "rm_321" =>
              /\ (Len(snapshots_) - 1 = th[t].base) <=> ReturnedOriginal(t)
              /\ ReturnedOriginal(t) => th[t].size_ = th[t].base

\* ------------------------------------------------- node immutability

\* The nodes reachable from node n of heap h (n = 0 is the null pointer).
RECURSIVE Reach(_, _)
Reach(h, n) ==
    IF n = 0 THEN {}
    ELSE {n} \cup UNION { Reach(h, h[n].children_[c]) : c \in DOMAIN h[n].children_ }

\* The nodes linked into some snapshot of the history.
Published == UNION { Reach(heap, snapshots_[i].root_) : i \in 1..Len(snapshots_) }

\* C15: no step of any thread changes the children, the terminal flag or the
\* value of a node reachable from a snapshot of the history; a step that
\* writes to the heap writes only to nodes that did not exist before it.
C15_PublishedImmutable ==
    [][ \/ heap' = heap
        \/ /\ Len(heap') >= Len(heap)
           /\ \A n \in Published : n <= Len(heap) /\ heap'[n] = heap[n]
           /\ \A n \in 1..Len(heap) : heap'[n] = heap[n] ]_vars

\* A Put has rebuilt the path of a key stored in a published snapshot with
\* children below it, while a Get is reading the history.
C15_Witness ==
    \E w, r \in Threads :
        /\ th[w].pc = "put_292" /\ th[r].pc = "get_275"
        /\ th[w].key = <<"a">> /\ HasValue(heap, th[w].latest, <<"a", "b">>)
        /\ Reach(heap, th[w].latest.root_) \subseteq Published
        /\ Reach(heap, th[w].newtrie.root_) \cap Published # {}

\* ------------------------------------------------- structural sharing

\* The identity of the node a key leads to in a trie, 0 when there is none.
IdAt(h, t, k) == IF Lands(h, t, k) THEN GetWalk(h, t.root_, k, 1).current ELSE 0

\* The children of node n, none for the null pointer.
ChildrenOf(h, n) == IF n = 0 THEN EmptyChildren ELSE h[n].children_

Prefix(k, j) == SubSeq(k, 1, j)

\* The last call of the chain was a Put, or a Remove that built a new root.
Changing ==
    /\ call.op \in {"Put", "Remove"}
    /\ Result.root_ # Receiver.root_

\* C16: after t' = t.Put(k, v) or a changing t' = t.Remove(k) the nodes of
\* t' that are not nodes of t are exactly the length(k)+1 nodes on the path
\* of k, and every child hanging off that path (the children of the node at
\* k, the siblings of the path's edges) is the same node in t and in t'.
C16_PathCopying ==
    Changing =>
        LET k == call.key
            path == { IdAt(heap, Result, Prefix(k, j)) : j \in 0..Len(k) }
        IN /\ 0 \notin path
           /\ Cardinality(path) = Len(k) + 1
           /\ Reach(heap, Result.root_) \ Reach(heap, Receiver.root_) = path
           /\ \A j \in 0..Len(k) :
                 LET new == ChildrenOf(heap, IdAt(heap, Result, Prefix(k, j)))
                     old == ChildrenOf(heap, IdAt(heap, Receiver, Prefix(k, j)))
                     edge == IF j < Len(k) THEN {k[j + 1]} ELSE {}
                 IN /\ (DOMAIN new) \ edge = (DOMAIN old) \ edge
                    /\ \A c \in (DOMAIN new) \ edge : new[c] = old[c]

\* A changing call on a trie with a subtree below the key and a sibling
\* subtree beside its path.
C16_Witness ==
    /\ Changing
    /\ call.key = <<"a">>
    /\ HasValue(heap, Receiver, <<"a", "b">>)
    /\ HasValue(heap, Receiver, <<"b">>)
    /\ IdAt(heap, Result, <<"a", "b">>) = IdAt(heap, Receiver, <<"a", "b">>)
    /\ IdAt(heap, Result, <<"b">>) = IdAt(heap, Receiver, <<"b">>)

\* ------------------------------------------------- lock scopes

HoldsShared(t) == t \in snapshots_lock_.shared
HoldsExclusive(t) == snapshots_lock_.exclusive = t

\* Positions of a writer: before it holds write_lock_ or after it released it,
\* between write_lock_ and lock_shared, from the read of the latest snapshot
\* to unlock_shared, waiting for or past the exclusive section, inside it.
WriterOutsidePcs == { "put_288", "put_298", "rm_306", "rm_322" }
WriterEnteredPcs == { "put_289", "rm_307" }
WriterSharedPcs == { "put_290", "put_291", "put_292", "rm_308", "rm_309", "rm_311" }
WriterUnlockedPcs == { "put_293", "put_297", "rm_314", "rm_320", "rm_321" }

\* C17 as stated: the writer computes the new trie (lines 291 and 309)
\* holding no lock on the history, neither shared nor exclusive.
C17_ComputeHoldsNoHistoryLock ==
    \A t \in Threads :
        th[t].pc \in {"put_291", "rm_309"} => ~HoldsShared(t) /\ ~HoldsExclusive(t)

\* C17: the writer holds write_lock_ from line 288/306 to line 297/321; it
\* holds the history lock in shared mode while it reads the latest snapshot
\* and while it computes the new trie, releases it, and holds the history
\* lock exclusively for the append and at no other line.
C17_WriteProtocol ==
    \A t \in Threads :
        /\ th[t].pc \in WriterOutsidePcs =>
              write_lock_ # t /\ ~HoldsShared(t) /\ ~HoldsExclusive(t)
        /\ th[t].pc \in WriterEnteredPcs \cup WriterUnlockedPcs =>
              write_lock_ = t /\ ~HoldsShared(t) /\ ~HoldsExclusive(t)
        /\ th[t].pc \in WriterSharedPcs =>
              write_lock_ = t /\ HoldsShared(t) /\ ~HoldsExclusive(t)
        /\ th[t].pc \in AppendPcs =>
              write_lock_ = t /\ ~HoldsShared(t) /\ HoldsExclusive(t)

\* A Put has computed its new trie and still holds the history lock shared.
C17_Witness ==
    \E w \in Threads :
        /\ th[w].pc = "put_292" /\ HoldsShared(w) /\ write_lock_ = w
        /\ th[w].newtrie.root_ # th[w].latest.root_
        /\ th[w].newtrie \notin { snapshots_[i] : i \in 1..Len(snapshots_) }

\* Positions of a Get after its shared_lock at line 269 was constructed.
GetLockedPcs == { "get_270", "get_275", "get_ret" }

\* C18 as stated: the key lookup and the construction of the ValueGuard
\* (lines 275-278) run with no lock held.
C18_LookupHoldsNoLock ==
    \A t \in Threads : th[t].pc = "get_275" => ~HoldsShared(t)

\* C18: Get holds the history lock in shared mode from line 269 until it
\* returns, the key lookup and the construction of the ValueGuard included,
\* and no writer is inside its exclusive append in the meantime.
C18_ReadLockScope ==
    \A t \in Threads :
        /\ th[t].pc \in {"get_269"} => ~HoldsShared(t)
        /\ th[t].pc \in GetLockedPcs =>
              /\ HoldsShared(t)
              /\ \A w \in Threads : th[w].pc \notin AppendPcs

\* A Get has looked its key up and built its ValueGuard, still holds the
\* shared lock, and a Put waits at line 293 for the exclusive lock.
C18_Witness ==
    \E r, w \in Threads :
        /\ th[r].pc = "get_ret" /\ th[r].ret.has_value /\ HoldsShared(r)
        /\ th[w].pc = "put_293" /\ ~CanLockExclusive(snapshots_lock_)

\* ------------------------------------------------- history

\* A fresh store: one snapshot, the empty trie, every Get at version 0
\* not-found.
FreshStore ==
    /\ Len(snapshots_) = 1
    /\ LastVersion(snapshots_) = 0
    /\ \A k \in StoreProbeKeys, T \in Types : StoreGet(heap, snapshots_, k, 0, T) = nullopt

\* The history after a step is the history before it, or that history with
\* one snapshot appended at its end.
AppendOnly ==
    \/ snapshots_' = snapshots_
    \/ /\ Len(snapshots_') = Len(snapshots_) + 1
       /\ SubSeq(snapshots_', 1, Len(snapshots_)) = snapshots_

\* The value get_version reads at line 329 is length - 1.
VersionIsLast ==
    \A t \in Threads :
        (th[t].pc = "ver_329" /\ th'[t].pc = "ver_ret") =>
            /\ th'[t].size_ = Len(snapshots_) - 1
            /\ th'[t].size_ = Len(snapshots_') - 1

\* C19: a fresh store has exactly one snapshot, version 0, in which every
\* Get is not-found; every step leaves the history unchanged or appends one
\* snapshot at its end; get_version returns length - 1, so successive
\* results never decrease.
C19_AppendOnlyHistory ==
    /\ FreshStore
    /\ [][AppendOnly /\ VersionIsLast]_vars

\* get_version has read the newest version of a history that has grown by
\* two appends.
C19_Witness ==
    \E t \in Threads :
        /\ th[t].pc = "ver_ret"
        /\ Len(snapshots_) = 3
        /\ th[t].size_ = 2

\* ------------------------------------------------- synchronisation

\* Positions whose next line writes snapshots_ (push_back) and positions
\* whose next line reads its size or one of its elements.
PushBackPcs == { "put_294", "rm_315" }
HistoryReadPcs == { "get_270", "ver_329", "put_290", "rm_308", "rm_320" }

\* C20: a thread about to append holds write_lock_ and holds snapshots_lock_
\* exclusively; a thread about to read snapshots_ holds snapshots_lock_ in
\* shared mode or holds write_lock_; so no read of snapshots_, the unlocked
\* size() at line 320 included, coincides with another thread's append.
C20_NoUnsynchronisedAccess ==
    \A t \in Threads :
        /\ th[t].pc \in PushBackPcs =>
              /\ write_lock_ = t /\ HoldsExclusive(t)
              /\ snapshots_lock_.shared = {}
        /\ th[t].pc \in HistoryReadPcs =>
              /\ HoldsShared(t) \/ write_lock_ = t
              /\ \A u \in Threads \ {t} : th[u].pc \notin PushBackPcs
        /\ th[t].pc = "rm_320" =>
              ~HoldsShared(t) /\ ~HoldsExclusive(t) /\ write_lock_ = t

\* A Remove reads size() at line 320 without snapshots_lock_ while another
\* writer waits for write_lock_.
C20_Witness ==
    \E t, u \in Threads :
        /\ th[t].pc = "rm_320" /\ ~HoldsShared(t) /\ write_lock_ = t
        /\ th[u].pc \in {"put_288", "rm_306"}

====
